---- MODULE Spec2Model ----
(***************************************************************************)
(* The live demo of Data/combined_demo/khalid_aliweh/final_demo.ipynb:     *)
(* the per-frame control function execute, the sliders it reads and        *)
(* writes, the notebook cells that call it (the direct call, the camera    *)
(* subscription, the stop cell) and the camera thread that delivers        *)
(* frames to it.                                                           *)
(*                                                                         *)
(* Numbers.  The code computes in floating point; the model computes in    *)
(* exact integers at fixed scales:                                         *)
(*   x, y_raw, prob_blocked, slider settings   hundredths                  *)
(*   y = (0.5 - y_raw) / 2                     two-hundredths              *)
(*   angle, angle_last                         milliradians                *)
(*   pid, steering, motor values               1/100000 (hundredths times  *)
(*                                             milliradians), One = 1.0    *)
(*                                                                         *)
(* execute is three steps per call (the inferences, the steering law, the  *)
(* motor write), so that the kernel thread and the camera thread can       *)
(* interleave where the notebook lets them.  x_slider and y_slider, which  *)
(* execute writes and nothing in this notebook reads, are left out.        *)
(***************************************************************************)
EXTENDS Integers, Sequences, FiniteSets, TLC

\* ------------------------------------------------------------------ bounds
\* number of execute calls that may be started (the direct call included)
MaxFrames == 3
\* number of slider moves the user may make
MaxTunes == 1

\* ------------------------------------------------------------------ inputs
\* values the steering model returns for xy[0] and xy[1], in hundredths
XValues == {-50, 0, 50}
YRawValues == {0, 50, 100}
\* values softmax returns for pred[0], in hundredths
ProbValues == {40, 70, 75}
Observations == [x : XValues, y_raw : YRawValues, prob : ProbValues]

\* positions the user may drag each displayed slider to, in hundredths
SpeedGainValues == {0, 50}
SteeringGainValues == {20, 100}
SteeringKdValues == {0, 50}
SteeringBiasValues == {-30, 0}
BlockedValues == {45}

\* --------------------------------------------------------------- arithmetic
One == 100 * 1000

Max(a, b) == IF a >= b THEN a ELSE b
Min(a, b) == IF a <= b THEN a ELSE b

\* (variant: the upper limit left out)
Clamp01_noUpper(v) == Max(v, 0)
\* max(min(v, 1.0), 0.0)
Clamp01(v) == Max(Min(v, One), 0)

\* a bounded ipywidgets slider stores an assigned value limited to [lo, hi]
SliderSet(lo, hi, v) == Max(lo, Min(hi, v))

\* the steering_slider range, in 1/100000
SteeringSliderMin == -One
SteeringSliderMax == One
\* (variant: a steering slider of half the range)
SteeringSliderSet_narrow(v) ==
    SliderSet(SteeringSliderMin \div 2, SteeringSliderMax \div 2, v)
SteeringSliderSet(v) == SliderSet(SteeringSliderMin, SteeringSliderMax, v)

\* the speed_slider range, in hundredths
\* (variant: a speed slider that starts at 0.1)
SpeedSliderSet_minSpeed(v) == SliderSet(10, 100, v)
SpeedSliderSet(v) == SliderSet(0, 100, v)

\* the blocked_slider range, in hundredths
BlockedSliderSet(v) == SliderSet(0, 100, v)

\* pi in milliradians
PiMilli == 3142
HalfPiMilli == 1571

\* arctan(n / d) in milliradians for n >= 0 and d > 0: the exact values
\* rounded for the ratios of the input grid, and otherwise the rational
\* approximation r * (pi/4 + 0.273 * (1 - r)) on [0, 1], with
\* arctan(r) = pi/2 - arctan(1/r) above 1
AtanUnit(n, d) == (n * (785 * d + 273 * (d - n))) \div (d * d)
AtanMilli(n, d) ==
    CASE n = 0 -> 0
      [] n = d -> 785
      [] n = 2 * d -> 1107
      [] 2 * n = d -> 464
      [] n < d -> AtanUnit(n, d)
      [] OTHER -> HalfPiMilli - AtanUnit(d, n)

\* (variant: the arctangent of the ratio of the magnitudes)
ArcTan2_unsigned(a, b) ==
    IF b = 0 THEN (IF a = 0 THEN 0 ELSE HalfPiMilli)
    ELSE AtanMilli(Max(a, -a), Max(b, -b))
\* np.arctan2(a, b): the angle of the point (b, a), in (-pi, pi]
ArcTan2(a, b) ==
    CASE b > 0 /\ a >= 0 -> AtanMilli(a, b)
      [] b > 0 /\ a < 0 -> -AtanMilli(-a, b)
      [] b = 0 /\ a > 0 -> HalfPiMilli
      [] b = 0 /\ a < 0 -> -HalfPiMilli
      [] b = 0 /\ a = 0 -> 0
      [] b < 0 /\ a >= 0 -> PiMilli - AtanMilli(a, -b)
      [] OTHER -> AtanMilli(-a, -b) - PiMilli

\* x in two-hundredths (x is used unmodified), y = (0.5 - xy[1]) / 2.0
TargetX(x) == 2 * x
TargetY(y_raw) == 50 - y_raw

\* (variant: the arguments of arctan2 exchanged)
Angle_swapped(x, y_raw) == ArcTan2(TargetY(y_raw), TargetX(x))
\* angle = np.arctan2(x, y)
Angle(x, y_raw) == ArcTan2(TargetX(x), TargetY(y_raw))

\* (variant: angle_last already overwritten when the difference is taken)
Pid_currentAngle(a, a_last, gain, kd) == a * gain + (a - a) * kd
\* (variant: the derivative taken of the angle itself, not of its change)
Pid_noPrevious(a, a_last, gain, kd) == a * gain + a * kd
\* (variant: the gains captured when execute is defined)
Pid_bakedGains(a, a_last, gain, kd) == a * 20 + (a - a_last) * 0
\* pid = angle * steering_gain + (angle - angle_last) * steering_dgain
Pid(a, a_last, gain, kd) == a * gain + (a - a_last) * kd

\* a slider setting (hundredths) in motor units
ToMotorUnits(c) == c * 1000

\* the literal of `if prob_blocked > 0.7`, in hundredths
BlockThreshold == 70

\* robot.stop(): both motors to zero
StopCommand == <<0, 0>>

\* (variant: the signs of the two wheels exchanged on the left)
LeftMotorValue_swapped(speed, steering) == Clamp01(ToMotorUnits(speed) - steering)
\* left_motor_value and right_motor_value, from the two slider values
LeftMotorValue(speed, steering) == Clamp01(ToMotorUnits(speed) + steering)
\* (variant: what clamping cuts off the left wheel is taken off the right)
RightMotorValue_joint(speed, steering) ==
    LET l == ToMotorUnits(speed) + steering
    IN Clamp01(ToMotorUnits(speed) - steering - (l - Clamp01(l)))
RightMotorValue(speed, steering) == Clamp01(ToMotorUnits(speed) - steering)

\* (variant: the state update skipped on a blocked frame)
NextAngleLast_skipBlocked(a, a_last, prob) == IF prob > BlockThreshold THEN a_last ELSE a
\* (variant: the previous angle smoothed over the frames)
NextAngleLast_smoothed(a, a_last, prob) == (a + a_last) \div 2
\* (variant: the previous angle never updated)
NextAngleLast_frozen(a, a_last, prob) == a_last
\* angle_last = angle, executed on every call
NextAngleLast(a, a_last, prob) == a

\* (variant: angle_last not reset when execute is defined)
InitAngleLast_stale == HalfPiMilli
\* the value angle_last is created with
InitAngleLast == 0

\* -------------------------------------------------------------------- state
Threads == {"main", "cam"}

VARIABLES
    cfg,              \* the four tuning sliders: speed gain, steering gain, kd, bias
    blocked_slider,   \* blocked_slider.value
    speed_slider,     \* speed_slider.value
    steering_slider,  \* steering_slider.value
    angle,            \* global angle
    angle_last,       \* global angle_last
    motor,            \* <<robot.left_motor.value, robot.right_motor.value>>
    observed,         \* execute is registered as an observer of camera.value
    mpc,              \* the notebook cell the kernel thread runs next, or is in
    pc,               \* per thread: its position in execute
    loc,              \* per thread: the locals of its execute call
    nframes,          \* execute calls started
    ntunes,           \* slider moves made
    hist,             \* the observation of the last completed call, and
                      \* whether the call before it was blocked
    out_of_range,     \* a value outside a slider's range has been entered
    twin,             \* a second run placed beside this one: its angle_last,
                      \* its motor command and its last frame
    run               \* the run of equal angles the last frame belongs to

vars == <<cfg, blocked_slider, speed_slider, steering_slider, angle, angle_last,
          motor, observed, mpc, pc, loc, nframes, ntunes, hist, out_of_range,
          twin, run>>

NoLocals == [x |-> 0, y_raw |-> 0, prob |-> 0, prev |-> 0, steering |-> 0,
             left_motor_value |-> 0, right_motor_value |-> 0]

NoFrame == [done |-> FALSE, x |-> 0, y_raw |-> 0, prob |-> 0, after_blocked |-> FALSE]

\* (variant: the comparison reversed)
Blocked_reversed(p) == p < BlockThreshold
\* (variant: the comparison not strict)
Blocked_notStrict(p) == p >= BlockThreshold
\* (variant: a latch, blocked until a frame after a blocked one is also clear)
Blocked_latched(p) == p > BlockThreshold \/ (hist.done /\ hist.prob > BlockThreshold)
\* (variant: the fifth slider read as the threshold)
Blocked_bySlider(p) == p > blocked_slider
\* if prob_blocked > 0.7
Blocked(p) == p > BlockThreshold

\* the slider defaults of the cell that creates them
InitConfig == [speed_gain |-> 0, steering_gain |-> 20, steering_kd |-> 0,
               steering_bias |-> 0]

\* a second run before its first frame: angle_last = 0.0, motors at rest
NoTwin == [done |-> FALSE, x |-> 0, y_raw |-> 0, prob |-> 0, angle_last |-> 0,
           motor |-> <<0, 0>>, diverged |-> FALSE]
\* no frame yet
NoRun == [len |-> 0, cfg |-> InitConfig, angle |-> 0, steering |-> 0,
          command |-> <<0, 0>>]

Init ==
    /\ cfg = InitConfig
    /\ blocked_slider = 0
    /\ speed_slider = 0
    /\ steering_slider = 0
    /\ angle = 0
    /\ angle_last = InitAngleLast
    /\ motor = <<0, 0>>
    /\ observed = FALSE
    /\ mpc = "define"
    /\ pc = [t \in Threads |-> "idle"]
    /\ loc = [t \in Threads |-> NoLocals]
    /\ nframes = 0
    /\ ntunes = 0
    /\ hist = NoFrame
    /\ out_of_range = FALSE
    /\ twin = NoTwin
    /\ run = NoRun

\* ------------------------------------------------------------------ execute
\* image = change['new'] ... blocked_slider.value = prob_blocked: the two
\* inferences on the frame, whose results are the observation obs
Infer(t, obs) ==
    /\ pc[t] = "idle"
    /\ nframes < MaxFrames
    /\ pc' = [pc EXCEPT ![t] = "steer"]
    /\ loc' = [loc EXCEPT ![t] = [NoLocals EXCEPT !.x = obs.x, !.y_raw = obs.y_raw,
                                                  !.prob = obs.prob]]
    /\ blocked_slider' = BlockedSliderSet(obs.prob)
    /\ nframes' = nframes + 1
    /\ UNCHANGED <<cfg, speed_slider, steering_slider, angle, angle_last, motor,
                   observed, ntunes, hist,
                   out_of_range, twin, run>>

\* (variant: the angle from the ratio x / y, which faults when y = 0)
Steer_ratio(t) ==
    /\ TargetY(loc[t].y_raw) # 0
    /\ pc[t] = "steer"
    /\ LET a == Angle(loc[t].x, loc[t].y_raw)
           pid == Pid(a, angle_last, cfg.steering_gain, cfg.steering_kd)
           steering == pid + ToMotorUnits(cfg.steering_bias)
           speed == SpeedSliderSet(cfg.speed_gain)
           shown == SteeringSliderSet(steering)
       IN /\ speed_slider' = speed
          /\ angle' = a
          /\ angle_last' = NextAngleLast(a, angle_last, loc[t].prob)
          /\ steering_slider' = shown
          /\ loc' = [loc EXCEPT ![t] =
                        [@ EXCEPT !.prev = angle_last,
                                  !.steering = steering,
                                  !.left_motor_value = LeftMotorValue(speed, shown),
                                  !.right_motor_value = RightMotorValue(speed, shown)]]
    /\ pc' = [pc EXCEPT ![t] = "drive"]
    /\ UNCHANGED <<cfg, blocked_slider, motor, observed, mpc, nframes, ntunes, hist,
                   out_of_range, twin, run>>

\* (variant: the speed assignment reversed, speed gain taken from the speed slider)
Steer_writesConfig(t) ==
    /\ pc[t] = "steer"
    /\ LET a == Angle(loc[t].x, loc[t].y_raw)
           pid == Pid(a, angle_last, cfg.steering_gain, cfg.steering_kd)
           steering == pid + ToMotorUnits(cfg.steering_bias)
           speed == SpeedSliderSet(cfg.speed_gain)
           shown == SteeringSliderSet(steering)
       IN /\ speed_slider' = speed
          /\ angle' = a
          /\ angle_last' = NextAngleLast(a, angle_last, loc[t].prob)
          /\ steering_slider' = shown
          /\ loc' = [loc EXCEPT ![t] =
                        [@ EXCEPT !.prev = angle_last,
                                  !.steering = steering,
                                  !.left_motor_value = LeftMotorValue(speed, shown),
                                  !.right_motor_value = RightMotorValue(speed, shown)]]
    /\ pc' = [pc EXCEPT ![t] = "drive"]
    /\ cfg' = [cfg EXCEPT !.speed_gain = speed_slider]
    /\ UNCHANGED <<blocked_slider, motor, observed, mpc, nframes, ntunes, hist,
                   out_of_range, twin, run>>

\* x = xy[0] ... right_motor_value = ...: the steering law
Steer(t) ==
    /\ pc[t] = "steer"
    /\ LET a == Angle(loc[t].x, loc[t].y_raw)
           pid == Pid(a, angle_last, cfg.steering_gain, cfg.steering_kd)
           steering == pid + ToMotorUnits(cfg.steering_bias)
           speed == SpeedSliderSet(cfg.speed_gain)
           shown == SteeringSliderSet(steering)
       IN /\ speed_slider' = speed
          /\ angle' = a
          /\ angle_last' = NextAngleLast(a, angle_last, loc[t].prob)
          /\ steering_slider' = shown
          /\ loc' = [loc EXCEPT ![t] =
                        [@ EXCEPT !.prev = angle_last,
                                  !.steering = steering,
                                  !.left_motor_value = LeftMotorValue(speed, shown),
                                  !.right_motor_value = RightMotorValue(speed, shown)]]
    /\ pc' = [pc EXCEPT ![t] = "drive"]
    /\ UNCHANGED <<cfg, blocked_slider, motor, observed, mpc, nframes, ntunes, hist,
                   out_of_range, twin, run>>

\* if prob_blocked > 0.7: robot.stop() else: the two motor writes; return
Drive(t) ==
    /\ pc[t] = "drive"
    /\ motor' = IF Blocked(loc[t].prob)
                THEN StopCommand
                ELSE <<loc[t].left_motor_value, loc[t].right_motor_value>>
    /\ pc' = [pc EXCEPT ![t] = "idle"]
    /\ loc' = [loc EXCEPT ![t] = NoLocals]
    /\ hist' = [done |-> TRUE, x |-> loc[t].x, y_raw |-> loc[t].y_raw,
                prob |-> loc[t].prob,
                after_blocked |-> hist.done /\ hist.prob > BlockThreshold]
    /\ mpc' = IF t = "main" THEN "observe" ELSE mpc
    /\ UNCHANGED <<cfg, blocked_slider, speed_slider, steering_slider, angle,
                   angle_last, observed, nframes, ntunes,
                   out_of_range, twin, run>>

\* ------------------------------------------------------------ notebook cells
\* (variant: the cell only defines execute)
DirectCall_skipped ==
    /\ mpc = "define"
    /\ mpc' = "observe"
    /\ UNCHANGED <<cfg, blocked_slider, speed_slider, steering_slider, angle,
                   angle_last, motor, observed, pc, loc, nframes, ntunes, hist,
                   out_of_range, twin, run>>
\* execute({'new': camera.value}), the last line of the cell defining execute
DirectCall ==
    /\ mpc = "define"
    /\ \E obs \in Observations : Infer("main", obs)
    /\ mpc' = "calling"

\* camera.observe(execute, names='value')
Observe ==
    /\ mpc = "observe"
    /\ observed' = TRUE
    /\ mpc' = "unobserve"
    /\ UNCHANGED <<cfg, blocked_slider, speed_slider, steering_slider, angle,
                   angle_last, motor, pc, loc, nframes, ntunes, hist,
                   out_of_range, twin, run>>

\* camera.unobserve(execute, names='value'), then time.sleep(0.1) begins
Unobserve ==
    /\ mpc = "unobserve"
    /\ observed' = FALSE
    /\ mpc' = "sleep"
    /\ UNCHANGED <<cfg, blocked_slider, speed_slider, steering_slider, angle,
                   angle_last, motor, pc, loc, nframes, ntunes, hist,
                   out_of_range, twin, run>>

\* (variant: the stop cell also clears the previous angle)
RobotStop_resetsState ==
    /\ mpc = "sleep"
    /\ motor' = StopCommand
    /\ mpc' = "end"
    /\ angle_last' = 0
    /\ UNCHANGED <<cfg, blocked_slider, speed_slider, steering_slider, angle,
                   observed, pc, loc, nframes, ntunes, hist,
                   out_of_range, twin, run>>

\* the sleep ends; robot.stop()
RobotStop ==
    /\ mpc = "sleep"
    /\ motor' = StopCommand
    /\ mpc' = "end"
    /\ UNCHANGED <<cfg, blocked_slider, speed_slider, steering_slider, angle,
                   angle_last, observed, pc, loc, nframes, ntunes, hist,
                   out_of_range, twin, run>>

\* ------------------------------------------------------------- camera thread
\* (variant: execute subscribed from the moment the camera is created)
CameraCallsExecute_always == TRUE
\* the camera thread calls the observers of camera.value on each new frame
CameraCallsExecute == observed

CameraFrame ==
    /\ CameraCallsExecute
    /\ \E obs \in Observations : Infer("cam", obs)
    /\ UNCHANGED mpc

\* ---------------------------------------------------------------- the user
\* the kernel thread handles a slider move only between cells
KernelIdle == mpc \in {"define", "observe", "unobserve", "end"}

TuneConfig ==
    /\ KernelIdle
    /\ ntunes < MaxTunes
    /\ \/ \E v \in SpeedGainValues : cfg' = [cfg EXCEPT !.speed_gain = v]
       \/ \E v \in SteeringGainValues : cfg' = [cfg EXCEPT !.steering_gain = v]
       \/ \E v \in SteeringKdValues : cfg' = [cfg EXCEPT !.steering_kd = v]
       \/ \E v \in SteeringBiasValues : cfg' = [cfg EXCEPT !.steering_bias = v]
    /\ cfg' # cfg
    /\ ntunes' = ntunes + 1
    /\ UNCHANGED <<blocked_slider, speed_slider, steering_slider, angle, angle_last,
                   motor, observed, mpc, pc, loc, nframes, hist,
                   out_of_range, twin, run>>

TuneBlocked ==
    /\ KernelIdle
    /\ ntunes < MaxTunes
    /\ \E v \in BlockedValues : blocked_slider' = BlockedSliderSet(v)
    /\ ntunes' = ntunes + 1
    /\ UNCHANGED <<cfg, speed_slider, steering_slider, angle, angle_last, motor,
                   observed, mpc, pc, loc, nframes, hist,
                   out_of_range, twin, run>>

\* values typed into the readout of a slider, outside the slider's range
SpeedGainEntries == {150}
SteeringGainEntries == {150}
SteeringKdEntries == {70}
SteeringBiasEntries == {-50}
BlockedEntries == {150}

\* the user enters a value outside the range of one of the five sliders of
\* the tuning cell; a FloatSlider(min, max) keeps what it is given within
\* its range
EnterConfig ==
    /\ KernelIdle
    /\ ntunes < MaxTunes
    /\ \/ /\ \E v \in SpeedGainEntries :
                cfg' = [cfg EXCEPT !.speed_gain = SliderSet(0, 100, v)]
          /\ UNCHANGED blocked_slider
       \/ /\ \E v \in SteeringGainEntries :
                cfg' = [cfg EXCEPT !.steering_gain = SliderSet(0, 100, v)]
          /\ UNCHANGED blocked_slider
       \/ /\ \E v \in SteeringKdEntries :
                cfg' = [cfg EXCEPT !.steering_kd = SliderSet(0, 50, v)]
          /\ UNCHANGED blocked_slider
       \/ /\ \E v \in SteeringBiasEntries :
                cfg' = [cfg EXCEPT !.steering_bias = SliderSet(-30, 30, v)]
          /\ UNCHANGED blocked_slider
       \/ /\ \E v \in BlockedEntries :
                blocked_slider' = SliderSet(0, 100, v)
          /\ UNCHANGED cfg
    /\ out_of_range' = TRUE
    /\ ntunes' = ntunes + 1
    /\ UNCHANGED <<speed_slider, steering_slider, angle, angle_last, motor,
                   observed, mpc, pc, loc, nframes, hist,
                   twin, run>>

Next ==
    \/ DirectCall
    \/ CameraFrame
    \/ \E t \in Threads : Steer(t)
    \/ \E t \in Threads : Drive(t)
    \/ Observe
    \/ Unobserve
    \/ RobotStop
    \/ TuneConfig
    \/ TuneBlocked
    \/ EnterConfig

Spec == Init /\ [][Next]_vars

\* ------------------------------------------------- non-finite inferences
\* The same notebook when an inference may return NaN. NaN stands for the
\* float nan: a value apart from every number of the model.
NaN == 0 - 1000 * One
IsNaN(v) == v = NaN

XValuesNaN == {NaN, 50}
YRawValuesNaN == {NaN, 0}
ProbValuesNaN == {NaN, 40, 75}
ObservationsNaN == [x : XValuesNaN, y_raw : YRawValuesNaN, prob : ProbValuesNaN]

\* a FloatSlider given nan: neither min > nan nor max < nan, so it keeps nan
SliderSetNaN(lo, hi, v) == IF IsNaN(v) THEN NaN ELSE SliderSet(lo, hi, v)
\* np.arctan2 of a nan coordinate is nan
AngleNaN(x, y_raw) == IF IsNaN(x) \/ IsNaN(y_raw) THEN NaN ELSE Angle(x, y_raw)
\* nan in any operand makes the sum nan, also under a gain of 0
PidNaN(a, a_last, gain, kd) ==
    IF IsNaN(a) \/ IsNaN(a_last) THEN NaN ELSE Pid(a, a_last, gain, kd)
AddNaN(a, b) == IF IsNaN(a) \/ IsNaN(b) THEN NaN ELSE a + b
\* max(min(v, 1.0), 0.0): min and max keep their first argument unless the
\* second compares smaller or larger, which nothing does with nan
Clamp01NaN(v) == IF IsNaN(v) THEN NaN ELSE Clamp01(v)
\* nan > 0.7 is False
BlockedNaN(p) == ~IsNaN(p) /\ Blocked(p)

InferNaN(t, obs) ==
    /\ pc[t] = "idle"
    /\ nframes < MaxFrames
    /\ pc' = [pc EXCEPT ![t] = "steer"]
    /\ loc' = [loc EXCEPT ![t] = [NoLocals EXCEPT !.x = obs.x, !.y_raw = obs.y_raw,
                                                  !.prob = obs.prob]]
    /\ blocked_slider' = SliderSetNaN(0, 100, obs.prob)
    /\ nframes' = nframes + 1
    /\ UNCHANGED <<cfg, speed_slider, steering_slider, angle, angle_last, motor,
                   observed, ntunes, hist, out_of_range, twin, run>>

SteerNaN(t) ==
    /\ pc[t] = "steer"
    /\ LET a == AngleNaN(loc[t].x, loc[t].y_raw)
           pid == PidNaN(a, angle_last, cfg.steering_gain, cfg.steering_kd)
           steering == AddNaN(pid, ToMotorUnits(cfg.steering_bias))
           speed == SpeedSliderSet(cfg.speed_gain)
           shown == SliderSetNaN(SteeringSliderMin, SteeringSliderMax, steering)
       IN /\ speed_slider' = speed
          /\ angle' = a
          /\ angle_last' = a
          /\ steering_slider' = shown
          /\ loc' = [loc EXCEPT ![t] =
                        [@ EXCEPT !.prev = angle_last,
                                  !.steering = steering,
                                  !.left_motor_value =
                                      Clamp01NaN(AddNaN(ToMotorUnits(speed), shown)),
                                  !.right_motor_value =
                                      Clamp01NaN(AddNaN(ToMotorUnits(speed),
                                                        IF IsNaN(shown) THEN NaN
                                                                        ELSE -shown))]]
    /\ pc' = [pc EXCEPT ![t] = "drive"]
    /\ UNCHANGED <<cfg, blocked_slider, motor, observed, mpc, nframes, ntunes, hist,
                   out_of_range, twin, run>>

DriveNaN(t) ==
    /\ pc[t] = "drive"
    /\ motor' = IF BlockedNaN(loc[t].prob)
                THEN StopCommand
                ELSE <<loc[t].left_motor_value, loc[t].right_motor_value>>
    /\ pc' = [pc EXCEPT ![t] = "idle"]
    /\ loc' = [loc EXCEPT ![t] = NoLocals]
    /\ hist' = [done |-> TRUE, x |-> loc[t].x, y_raw |-> loc[t].y_raw,
                prob |-> loc[t].prob,
                after_blocked |-> hist.done /\ BlockedNaN(hist.prob)]
    /\ mpc' = IF t = "main" THEN "observe" ELSE mpc
    /\ UNCHANGED <<cfg, blocked_slider, speed_slider, steering_slider, angle,
                   angle_last, observed, nframes, ntunes, out_of_range, twin, run>>

DirectCallNaN ==
    /\ mpc = "define"
    /\ \E obs \in ObservationsNaN : InferNaN("main", obs)
    /\ mpc' = "calling"

CameraFrameNaN ==
    /\ CameraCallsExecute
    /\ \E obs \in ObservationsNaN : InferNaN("cam", obs)
    /\ UNCHANGED mpc

NextNaN ==
    \/ DirectCallNaN
    \/ CameraFrameNaN
    \/ \E t \in Threads : SteerNaN(t)
    \/ \E t \in Threads : DriveNaN(t)
    \/ Observe
    \/ Unobserve
    \/ RobotStop
    \/ TuneConfig

SpecNaN == Init /\ [][NextNaN]_vars

\* ------------------------------------------------ the wheels, as a function
\* The last lines of execute as a function of the speed gain and of the
\* steering value pid + bias, both drawn from a grid: speed gains over the
\* range of the slider, steering values from -2.5 to 2.5.
WheelSpeeds == {0, 25, 50, 75, 100}
WheelSteerings == {5000 * k : k \in -50..50}

InitWheels ==
    /\ \E v \in WheelSpeeds : cfg = [InitConfig EXCEPT !.speed_gain = v]
    /\ blocked_slider = 0
    /\ speed_slider = 0
    /\ steering_slider = 0
    /\ angle = 0
    /\ angle_last = 0
    /\ motor = <<0, 0>>
    /\ observed = FALSE
    /\ mpc = "calling"
    /\ pc = [t \in Threads |-> IF t = "main" THEN "route" ELSE "idle"]
    /\ \E s \in WheelSteerings :
          loc = [t \in Threads |->
                    IF t = "main" THEN [NoLocals EXCEPT !.steering = s] ELSE NoLocals]
    /\ nframes = 1
    /\ ntunes = 0
    /\ hist = NoFrame
    /\ out_of_range = FALSE
    /\ twin = NoTwin
    /\ run = NoRun

\* speed_slider.value = speed_gain_slider.value; steering_slider.value =
\* pid + bias; left_motor_value = ...; right_motor_value = ...
Route(t) ==
    /\ pc[t] = "route"
    /\ LET speed == SpeedSliderSet(cfg.speed_gain)
           shown == SteeringSliderSet(loc[t].steering)
       IN /\ speed_slider' = speed
          /\ steering_slider' = shown
          /\ loc' = [loc EXCEPT ![t] =
                        [@ EXCEPT !.left_motor_value = LeftMotorValue(speed, shown),
                                  !.right_motor_value = RightMotorValue(speed, shown)]]
    /\ pc' = [pc EXCEPT ![t] = "drive"]
    /\ UNCHANGED <<cfg, blocked_slider, angle, angle_last, motor, observed, mpc,
                   nframes, ntunes, hist, out_of_range, twin, run>>

NextWheels ==
    \/ \E t \in Threads : Route(t)
    \/ \E t \in Threads : Drive(t)

SpecWheels == InitWheels /\ [][NextWheels]_vars

\* ------------------------------------------------------ a frame at a time
\* A whole call of execute as one step: the call on a frame whose
\* inferences are obs, reading previous angle a_last and sliders c.
Execute(obs, a_last, c) ==
    LET a == Angle(obs.x, obs.y_raw)
        pid == Pid(a, a_last, c.steering_gain, c.steering_kd)
        steering == pid + ToMotorUnits(c.steering_bias)
        speed == SpeedSliderSet(c.speed_gain)
        shown == SteeringSliderSet(steering)
        command == <<LeftMotorValue(speed, shown), RightMotorValue(speed, shown)>>
    IN [angle |-> a,
        angle_last |-> NextAngleLast(a, a_last, obs.prob),
        steering |-> steering,
        speed |-> speed,
        shown |-> shown,
        command |-> command,
        motor |-> IF Blocked(obs.prob) THEN StopCommand ELSE command]

\* the call acting on this run
RunFrame(obs) ==
    /\ nframes < MaxFrames
    /\ LET r == Execute(obs, angle_last, cfg)
       IN /\ blocked_slider' = BlockedSliderSet(obs.prob)
          /\ speed_slider' = r.speed
          /\ angle' = r.angle
          /\ angle_last' = r.angle_last
          /\ steering_slider' = r.shown
          /\ motor' = r.motor
    /\ hist' = [done |-> TRUE, x |-> obs.x, y_raw |-> obs.y_raw, prob |-> obs.prob,
                after_blocked |-> hist.done /\ hist.prob > BlockThreshold]
    /\ nframes' = nframes + 1
    /\ UNCHANGED <<cfg, observed, mpc, pc, loc, ntunes, out_of_range>>

\* ---- the other variant of the notebook, beside this one
BlockThreshold001 == 40
\* (variant: the threshold of the first notebook)
Blocked001_high(p) == p > BlockThreshold
\* if prob_blocked > 0.4
Blocked001(p) == p > BlockThreshold001

\* execute of the other variant: x = xy[0] ... time.sleep(0.001)
Execute001(obs, a_last, c) ==
    LET x == TargetX(obs.x)
        y == TargetY(obs.y_raw)
        speed == SliderSet(0, 100, c.speed_gain)
        a == ArcTan2(x, y)
        pid == a * c.steering_gain + (a - a_last) * c.steering_kd
        shown == SliderSet(-One, One, pid + ToMotorUnits(c.steering_bias))
        left_motor_value == Max(Min(ToMotorUnits(speed) + shown, One), 0)
        right_motor_value == Max(Min(ToMotorUnits(speed) - shown, One), 0)
    IN [angle_last |-> a,
        motor |-> IF Blocked001(obs.prob)
                  THEN StopCommand
                  ELSE <<left_motor_value, right_motor_value>>]

\* both variants process the same frame under the same slider values
PairFrame ==
    /\ \E obs \in Observations :
          /\ RunFrame(obs)
          /\ LET r == Execute001(obs, twin.angle_last, cfg)
             IN twin' = [done |-> TRUE, x |-> obs.x, y_raw |-> obs.y_raw,
                         prob |-> obs.prob, angle_last |-> r.angle_last,
                         motor |-> r.motor, diverged |-> FALSE]
    /\ UNCHANGED run

NextPair ==
    \/ PairFrame
    \/ TuneConfig

SpecPair == Init /\ [][NextPair]_vars

\* ---- a second run of this notebook, on frames of its own
TwoRunObservations == [x : {-50, 50}, y_raw : {0, 100}, prob : {40, 75}]

\* each of the two runs processes its next frame; the second run keeps the
\* slider defaults
TwoRunsFrame ==
    /\ \E obs \in TwoRunObservations, obs2 \in TwoRunObservations :
          /\ RunFrame(obs)
          /\ LET r == Execute(obs2, twin.angle_last, InitConfig)
             IN twin' = [done |-> TRUE, x |-> obs2.x, y_raw |-> obs2.y_raw,
                         prob |-> obs2.prob, angle_last |-> r.angle_last,
                         motor |-> r.motor,
                         diverged |-> \/ twin.diverged
                                      \/ /\ twin.done
                                         /\ <<twin.x, twin.y_raw>> # <<hist.x, hist.y_raw>>]
    /\ UNCHANGED run

NextTwoRuns ==
    \/ TwoRunsFrame
    \/ TuneConfig

SpecTwoRuns == Init /\ [][NextTwoRuns]_vars

\* ---- runs of equal angles
\* the frame processed, and the run of frames of one angle under one
\* configuration it belongs to (lengths above 3 are kept as 3)
SteadyFrame ==
    /\ \E obs \in Observations :
          /\ RunFrame(obs)
          /\ LET r == Execute(obs, angle_last, cfg)
                 a == Angle(obs.x, obs.y_raw)
                 same == run.len > 0 /\ a = run.angle /\ cfg = run.cfg
             IN run' = [len |-> IF same THEN Min(run.len + 1, 3) ELSE 1,
                        cfg |-> cfg,
                        angle |-> a,
                        steering |-> r.steering,
                        command |-> r.command]
    /\ UNCHANGED twin

NextSteady ==
    \/ SteadyFrame
    \/ TuneConfig

SpecSteady == Init /\ [][NextSteady]_vars

\* ------------------------------------------------------------------- claims
\* steps of execute, as seen in a transition
SteerStep(t) == pc[t] = "steer" /\ pc'[t] = "drive"
DriveStep(t) == pc[t] = "drive" /\ pc'[t] = "idle"
InFlight == {t \in Threads : pc[t] # "idle"}

\* C1: when the last completed frame had prob_blocked above the threshold,
\* the motor command in effect is exactly (0.0, 0.0), whatever x, y_raw,
\* the gains, the bias and the previous angle were.
C1_OverrideStops ==
    (hist.done /\ hist.prob > BlockThreshold) => motor = <<0, 0>>

\* a blocked frame completed while the speed setting would have driven
C1_Witness ==
    /\ hist.done /\ hist.prob > BlockThreshold
    /\ speed_slider > 0 /\ steering_slider # 0
    /\ mpc = "unobserve"
    /\ motor = <<0, 0>>

\* C2: every motor value execute computes, and every motor value in effect,
\* lies in [0.0, 1.0], also when steering is far outside [-1, 1].
C2_MotorRange ==
    /\ motor[1] \in 0..One /\ motor[2] \in 0..One
    /\ \A t \in Threads :
          /\ loc[t].left_motor_value \in 0..One
          /\ loc[t].right_motor_value \in 0..One

\* a frame whose steering was above 2.0 has driven the motors
C2_Witness ==
    /\ hist.done /\ hist.prob <= BlockThreshold /\ InFlight = {}
    /\ angle * cfg.steering_gain > 2 * One
    /\ angle_last = angle /\ cfg.steering_bias = 0
    /\ motor = <<One, 0>>

\* C3: after a call of execute angle_last is the angle of that call's
\* (x, y_raw), blocked or not; so the previous angle a call reads is the
\* angle of the call before it, also when that call was blocked.
C3_AngleLastIsLastAngle ==
    /\ \A t \in Threads : pc[t] = "drive" =>
          /\ angle_last = Angle(loc[t].x, loc[t].y_raw)
          /\ hist.done => loc[t].prev = Angle(hist.x, hist.y_raw)
    /\ (hist.done /\ \A t \in Threads : pc[t] # "drive") =>
          angle_last = Angle(hist.x, hist.y_raw)

\* a clear frame has taken its derivative from the angle of a blocked frame
C3_Witness ==
    /\ pc["cam"] = "drive"
    /\ hist.done /\ hist.prob > BlockThreshold
    /\ loc["cam"].prob <= BlockThreshold
    /\ loc["cam"].prev = Angle(hist.x, hist.y_raw)
    /\ loc["cam"].prev # 0 /\ loc["cam"].prev # angle_last
    /\ motor = <<0, 0>>

\* C4: a frame with prob_blocked <= threshold (equality included) drives
\* left = clamp(speed_gain + steering, 0, 1), right = clamp(speed_gain -
\* steering, 0, 1), speed being the speed_gain setting read in this call.
C4_DriveValues ==
    [][\A t \in Threads :
          /\ SteerStep(t) =>
                /\ loc'[t].left_motor_value =
                      Clamp01(ToMotorUnits(cfg.speed_gain) + loc'[t].steering)
                /\ loc'[t].right_motor_value =
                      Clamp01(ToMotorUnits(cfg.speed_gain) - loc'[t].steering)
          /\ (DriveStep(t) /\ loc[t].prob <= BlockThreshold) =>
                motor' = <<loc[t].left_motor_value, loc[t].right_motor_value>>
      ]_vars

\* a frame with prob_blocked equal to the threshold drives both wheels,
\* neither saturated
C4_Witness ==
    /\ hist.done /\ hist.prob = BlockThreshold /\ InFlight = {}
    /\ motor[1] \in 1..(One - 1) /\ motor[2] \in 1..(One - 1)
    /\ motor[1] # motor[2]

\* C5: steering = angle * steering_gain + (angle - previous_angle) *
\* steering_kd + steering_bias, previous_angle being angle_last as the
\* preceding call left it (0 before the first call).
C5_SteeringLaw ==
    [][\A t \in Threads : SteerStep(t) =>
          LET a == Angle(loc[t].x, loc[t].y_raw)
              previous_angle == IF hist.done THEN Angle(hist.x, hist.y_raw) ELSE 0
          IN loc'[t].steering =
                a * cfg.steering_gain + (a - previous_angle) * cfg.steering_kd
                + ToMotorUnits(cfg.steering_bias)
      ]_vars

\* a call whose derivative term is not zero
C5_Witness ==
    /\ pc["cam"] = "drive" /\ hist.done
    /\ cfg.steering_kd > 0
    /\ loc["cam"].prev # 0 /\ angle_last # 0 /\ loc["cam"].prev # angle_last
    /\ loc["cam"].steering =
          angle_last * cfg.steering_gain
          + (angle_last - loc["cam"].prev) * cfg.steering_kd
          + ToMotorUnits(cfg.steering_bias)

\* C6: once the stop cell has run (unobserve, sleep, robot.stop()), the motor
\* command is (0.0, 0.0) and stays so: no execute call writes a non-zero
\* motor value afterwards.
C6_StopIsFinal ==
    mpc = "end" => motor = <<0, 0>>

\* C7: at most one execute call is in flight at any time.
C7_OneInFlight ==
    Cardinality(InFlight) <= 1

\* a subscribed frame is being processed after the direct call has returned
C7_Witness ==
    /\ observed /\ hist.done
    /\ pc["cam"] = "drive" /\ pc["main"] = "idle"

\* C8: the obstacle decision has no memory: a frame with prob_blocked not
\* above the threshold that follows a blocked frame drives the motors with
\* clamp(speed + steering), clamp(speed - steering) of that frame.
C8_NoLatch ==
    [][\A t \in Threads :
          (/\ DriveStep(t)
           /\ hist.done /\ hist.prob > BlockThreshold
           /\ loc[t].prob <= BlockThreshold) =>
              motor' = <<Clamp01(ToMotorUnits(speed_slider) + loc[t].steering),
                         Clamp01(ToMotorUnits(speed_slider) - loc[t].steering)>>
      ]_vars

\* the frame after a blocked frame has set the robot moving again
C8_Witness ==
    /\ hist.done /\ hist.after_blocked /\ hist.prob <= BlockThreshold
    /\ InFlight = {}
    /\ motor # <<0, 0>>

\* C9 as stated: the threshold is a setting the user tunes like the four
\* gains, the fifth displayed slider, so a frame is blocked exactly when its
\* prob_blocked is above the value that slider was set to before the frame.
C9_ThresholdIsTunable ==
    [][\A t \in Threads :
          (pc[t] = "idle" /\ pc'[t] = "steer" /\ blocked_slider \in BlockedValues) =>
              (Blocked(loc'[t].prob) <=> loc'[t].prob > blocked_slider)
      ]_vars

\* C9 amended: the threshold is the literal 0.7 of execute and no slider
\* changes it; whatever the five displayed sliders hold, a frame whose
\* computed wheel values are not both zero stops the robot exactly when its
\* prob_blocked > 0.7.
C9_ThresholdIsLiteral ==
    [][\A t \in Threads :
          (/\ DriveStep(t)
           /\ <<loc[t].left_motor_value, loc[t].right_motor_value>> # <<0, 0>>) =>
              (motor' = <<0, 0>> <=> loc[t].prob > BlockThreshold)
      ]_vars

\* the user has moved the fifth slider to 0.45 and a later frame with
\* prob_blocked = 0.7 has driven the motors
C9_Witness ==
    /\ ntunes = 1 /\ cfg = InitConfig
    /\ hist.done /\ hist.prob = BlockThreshold /\ InFlight = {}
    /\ blocked_slider = BlockThreshold
    /\ motor # <<0, 0>>

\* C10: angle_last is 0.0 until the first call, only the state update of
\* execute changes it, and the first call's derivative term is
\* angle * steering_kd.
C10_InitialAngleLast ==
    [][/\ nframes = 0 => angle_last = 0
       /\ angle_last' # angle_last => \E t \in Threads : SteerStep(t)
       /\ \A t \in Threads : (SteerStep(t) /\ ~hist.done) =>
             loc'[t].steering - angle' * cfg.steering_gain
                 - ToMotorUnits(cfg.steering_bias)
             = angle' * cfg.steering_kd
      ]_vars

\* the first call has run with a derivative gain and a non-zero angle
C10_Witness ==
    /\ pc["main"] = "drive" /\ ~hist.done
    /\ cfg.steering_kd > 0
    /\ loc["main"].prev = 0 /\ angle_last # 0
    /\ loc["main"].steering = angle_last * (cfg.steering_gain + cfg.steering_kd)

Sign(v) == IF v > 0 THEN 1 ELSE IF v < 0 THEN -1 ELSE 0

\* C11: when a frame's angle equals the previous angle the derivative term
\* is zero: steering = angle * steering_gain + steering_bias, whatever
\* steering_kd is.
C11_SteadyAngle ==
    [][\A t \in Threads :
          (SteerStep(t) /\ Angle(loc[t].x, loc[t].y_raw) = angle_last) =>
              loc'[t].steering =
                  angle_last * cfg.steering_gain + ToMotorUnits(cfg.steering_bias)
      ]_vars

\* a frame has repeated a non-zero angle under a derivative gain
C11_Witness ==
    /\ pc["cam"] = "drive" /\ hist.done
    /\ cfg.steering_kd > 0
    /\ loc["cam"].prev = angle_last /\ angle_last # 0
    /\ loc["cam"].steering =
          angle_last * cfg.steering_gain + ToMotorUnits(cfg.steering_bias)

\* C12: a frame with x = 0 and y > 0 processed with previous angle 0 has
\* angle 0 and steering = steering_bias for every steering_gain and
\* steering_kd; not blocked, it drives clamp(speed_gain + bias) and
\* clamp(speed_gain - bias).
C12_StraightAhead ==
    [][\A t \in Threads :
          /\ (/\ SteerStep(t)
              /\ loc[t].x = 0 /\ TargetY(loc[t].y_raw) > 0 /\ angle_last = 0) =>
                 /\ angle' = 0
                 /\ loc'[t].steering = ToMotorUnits(cfg.steering_bias)
                 /\ loc'[t].left_motor_value =
                       Clamp01(ToMotorUnits(cfg.speed_gain + cfg.steering_bias))
                 /\ loc'[t].right_motor_value =
                       Clamp01(ToMotorUnits(cfg.speed_gain - cfg.steering_bias))
          /\ (/\ DriveStep(t)
              /\ loc[t].x = 0 /\ TargetY(loc[t].y_raw) > 0 /\ loc[t].prev = 0
              /\ loc[t].prob <= BlockThreshold) =>
                 motor' = <<loc[t].left_motor_value, loc[t].right_motor_value>>
      ]_vars

\* such a frame has been steered with a bias set
C12_Witness ==
    /\ pc["cam"] = "drive"
    /\ loc["cam"].x = 0 /\ TargetY(loc["cam"].y_raw) > 0 /\ loc["cam"].prev = 0
    /\ cfg.steering_bias # 0
    /\ loc["cam"].steering = ToMotorUnits(cfg.steering_bias)
    /\ loc["cam"].right_motor_value > 0

\* C13: each wheel is clamped on its own: a wheel whose sum is within
\* [0, 1] keeps exactly that sum, also when the other wheel saturates.
C13_IndependentClamp ==
    [][\A t \in Threads : SteerStep(t) =>
          LET l == ToMotorUnits(cfg.speed_gain) + loc'[t].steering
              r == ToMotorUnits(cfg.speed_gain) - loc'[t].steering
          IN /\ l \in 0..One => loc'[t].left_motor_value = l
             /\ r \in 0..One => loc'[t].right_motor_value = r
             /\ l < 0 => loc'[t].left_motor_value = 0
             /\ l > One => loc'[t].left_motor_value = One
             /\ r < 0 => loc'[t].right_motor_value = 0
             /\ r > One => loc'[t].right_motor_value = One
      ]_vars

\* the left wheel saturated at 0 while the right wheel kept its sum
C13_Witness ==
    \E t \in Threads :
       /\ pc[t] = "drive"
       /\ ToMotorUnits(speed_slider) + loc[t].steering < 0
       /\ loc[t].left_motor_value = 0
       /\ loc[t].right_motor_value = ToMotorUnits(speed_slider) - loc[t].steering
       /\ loc[t].right_motor_value \in 1..(One - 1)

\* C14: for every frame with y > 0 the angle has the sign of x.
C14_AngleSign ==
    /\ \A t \in Threads :
          (pc[t] = "drive" /\ TargetY(loc[t].y_raw) > 0) =>
              Sign(angle_last) = Sign(loc[t].x)
    /\ (hist.done /\ InFlight = {} /\ TargetY(hist.y_raw) > 0) =>
          Sign(angle_last) = Sign(hist.x)

\* a frame with y > 0 and x < 0 has left a negative angle
C14_Witness ==
    /\ hist.done /\ InFlight = {}
    /\ TargetY(hist.y_raw) > 0 /\ hist.x < 0
    /\ angle_last < 0

\* C17: a configuration value outside its slider's range is rejected, not
\* clamped: no slider takes a value from it, and no frame is processed
\* after it.
C17_OutOfRangeRejected ==
    [][/\ (out_of_range' /\ ~out_of_range) =>
              (cfg' = cfg /\ blocked_slider' = blocked_slider)
       /\ out_of_range => \A t \in Threads : pc'[t] = pc[t]
      ]_vars

\* C15: execute takes y = (0.5 - y_raw) / 2 and x as it is; a frame with
\* y = 0, x = 0 included, is processed like any other: the call goes on
\* through the steering law and the motor write, and the previous angle is
\* the angle of that frame.
C15_ZeroY ==
    \A t \in Threads :
       /\ (pc[t] = "steer" /\ 50 - loc[t].y_raw = 0) => ENABLED Steer(t)
       /\ (pc[t] = "drive" /\ 50 - loc[t].y_raw = 0) =>
             /\ ENABLED Drive(t)
             /\ angle_last = Sign(loc[t].x) * HalfPiMilli
       /\ pc[t] = "drive" =>
             /\ angle_last = ArcTan2(2 * loc[t].x, 50 - loc[t].y_raw)
             /\ (loc[t].x = 50 /\ loc[t].y_raw = 0) => angle_last = 1107

\* a frame with y = 0 and x > 0 has completed and driven the motors
C15_Witness ==
    /\ hist.done /\ InFlight = {} /\ mpc = "unobserve"
    /\ hist.y_raw = 50 /\ hist.x > 0 /\ hist.prob <= BlockThreshold
    /\ angle_last = HalfPiMilli
    /\ motor[1] > 0

\* C16: every call reads the four tuning sliders as they stand when it
\* runs: a change made between two frames is used by the next call.
C16_ConfigReadEachCall ==
    [][\A t \in Threads : SteerStep(t) =>
          /\ speed_slider' = cfg.speed_gain
          /\ loc'[t].steering =
                angle' * cfg.steering_gain
                + (angle' - angle_last) * cfg.steering_kd
                + 1000 * cfg.steering_bias
          /\ loc'[t].left_motor_value =
                Clamp01(1000 * cfg.speed_gain + steering_slider')
          /\ loc'[t].right_motor_value =
                Clamp01(1000 * cfg.speed_gain - steering_slider')
      ]_vars

\* a frame was driven with speed gain 0, and the next one has taken the
\* speed gain set since
C16_Witness ==
    /\ pc["cam"] = "drive" /\ hist.done /\ mpc = "unobserve"
    /\ hist.prob <= BlockThreshold /\ hist.x = 0 /\ hist.y_raw = 0
    /\ motor = <<0, 0>>
    /\ cfg.speed_gain = 50 /\ speed_slider = 50
    /\ loc["cam"].left_motor_value >= 50 * 1000

C20_AngleLastOwned ==
    [][/\ angle_last' # angle_last => \E t \in Threads : SteerStep(t)
       /\ pc' = pc => (angle_last' = angle_last /\ angle' = angle)
      ]_vars

\* the stop cell has run and a slider was moved; the angle of the last
\* frame is still the previous angle
C20_Witness ==
    /\ mpc = "end" /\ InFlight = {} /\ ntunes > 0
    /\ hist.done /\ angle_last # 0
    /\ angle_last = Angle(hist.x, hist.y_raw)

\* C18: under inferences that may be NaN, neither motor is ever given a
\* NaN: both motor values stay numbers within [0, 1], and a frame with a
\* NaN in it leaves the motors stopped.
C18_NoNaNAtMotors ==
    /\ \A i \in 1..2 : ~IsNaN(motor[i]) /\ motor[i] \in 0..One
    /\ (/\ hist.done /\ InFlight = {}
        /\ (IsNaN(hist.x) \/ IsNaN(hist.y_raw) \/ IsNaN(hist.prob))) =>
           motor = StopCommand

\* C21: the detour of steering through steering_slider, which keeps it in
\* [-1, 1], changes nothing: for every speed gain in [0, 1] and every
\* steering value the wheels get clamp(speed + steering, 0, 1) and
\* clamp(speed - steering, 0, 1) of the steering value itself.
C21_SliderDetour ==
    \A t \in Threads : pc[t] = "drive" =>
       /\ loc[t].left_motor_value =
             Max(0, Min(One, 1000 * cfg.speed_gain + loc[t].steering))
       /\ loc[t].right_motor_value =
             Max(0, Min(One, 1000 * cfg.speed_gain - loc[t].steering))

\* a steering value above 1 was cut to 1 by the slider, under a speed gain
C21_Witness ==
    /\ pc["main"] = "drive"
    /\ loc["main"].steering > One /\ steering_slider = One
    /\ cfg.speed_gain = 50
    /\ loc["main"].left_motor_value = One
    /\ loc["main"].right_motor_value = 0

\* C25: clamping keeps the direction of the turn: left >= right when
\* steering >= 0, left <= right when steering <= 0, and when neither wheel
\* saturates left - right = 2 * steering and left + right = 2 * speed gain;
\* the command of a frame that is not blocked has these values.
C25_TurnDirection ==
    /\ \A t \in Threads : pc[t] = "drive" =>
          LET l == loc[t].left_motor_value
              r == loc[t].right_motor_value
              st == loc[t].steering
              sp == 1000 * speed_slider
          IN /\ st >= 0 => l >= r
             /\ st <= 0 => l <= r
             /\ (sp + st \in 0..One /\ sp - st \in 0..One) =>
                   (l - r = 2 * st /\ l + r = 2 * sp)
    /\ (/\ hist.done /\ hist.prob <= BlockThreshold
        /\ InFlight = {} /\ mpc # "end") =>
          LET sp == 1000 * speed_slider
          IN /\ steering_slider >= 0 => motor[1] >= motor[2]
             /\ steering_slider <= 0 => motor[1] <= motor[2]
             /\ (sp + steering_slider \in 0..One /\ sp - steering_slider \in 0..One) =>
                   /\ motor[1] - motor[2] = 2 * steering_slider
                   /\ motor[1] + motor[2] = 2 * sp

\* a frame that turned left under a speed gain, neither wheel saturated
C25_Witness ==
    /\ hist.done /\ hist.prob <= BlockThreshold /\ InFlight = {} /\ mpc # "end"
    /\ steering_slider < 0 /\ speed_slider > 0
    /\ motor[1] > 0 /\ motor[1] < motor[2] /\ motor[2] < One
    /\ motor[2] - motor[1] = -2 * steering_slider

\* C27: with speed gain 0 the wheels get clamp(steering, 0, 1) and
\* clamp(-steering, 0, 1), so at most one of them is not zero.
C27_ZeroSpeedOneWheel ==
    /\ \A t \in Threads : (pc[t] = "drive" /\ cfg.speed_gain = 0) =>
          /\ loc[t].left_motor_value = Max(0, Min(One, loc[t].steering))
          /\ loc[t].right_motor_value = Max(0, Min(One, -loc[t].steering))
          /\ Min(loc[t].left_motor_value, loc[t].right_motor_value) = 0
    /\ cfg.speed_gain = 0 => Min(motor[1], motor[2]) = 0

\* a frame with speed gain 0 and a small steering value drove one wheel
C27_Witness ==
    /\ hist.done /\ cfg.speed_gain = 0
    /\ steering_slider > 0 /\ steering_slider < One
    /\ motor = <<steering_slider, 0>>

\* C22: the two variants of the notebook, on the same frames under the
\* same slider values, have the same angle_last after every frame and the
\* same motor command on every frame, except a frame with 0.4 <
\* prob_blocked <= 0.7, on which the variant with threshold 0.4 stops and
\* the variant with threshold 0.7 drives.
C22_VariantsAgree ==
    /\ twin.angle_last = angle_last
    /\ hist.done =>
          IF hist.prob > 40 /\ hist.prob <= 70
          THEN /\ twin.motor = <<0, 0>>
               /\ motor = <<Clamp01(1000 * speed_slider + steering_slider),
                            Clamp01(1000 * speed_slider - steering_slider)>>
          ELSE twin.motor = motor

\* a second frame with prob_blocked 0.7: one variant drives, the other stops
C22_Witness ==
    /\ hist.done /\ twin.done /\ nframes >= 2
    /\ hist.prob = 70
    /\ twin.motor = <<0, 0>> /\ motor # <<0, 0>>
    /\ twin.angle_last = angle_last /\ angle_last # 0

\* C23: two runs whose last frames have the same (x, y_raw) have the same
\* angle_last, whatever their prob_blocked values, their slider values and
\* their earlier frames.
C23_LastFrameOnly ==
    (/\ hist.done /\ twin.done
     /\ hist.x = twin.x /\ hist.y_raw = twin.y_raw) =>
        angle_last = twin.angle_last

\* two runs that differed in an earlier frame, in the sliders and in the
\* last prob_blocked agree on the last (x, y_raw)
C23_Witness ==
    /\ hist.done /\ twin.done /\ twin.diverged
    /\ hist.x = twin.x /\ hist.y_raw = twin.y_raw
    /\ hist.prob # twin.prob
    /\ cfg # InitConfig
    /\ angle_last = twin.angle_last /\ angle_last # 0

\* C24: in a run of frames with one angle under one configuration, from
\* the second frame on steering is angle * steering_gain + steering_bias,
\* and from the third on the wheel values repeat those of the frame
\* before, which a frame that is not blocked sends to the motors.
C24_SteadyRun ==
    [][nframes' = nframes + 1 =>
          /\ run'.len >= 2 =>
                run'.steering = run'.angle * cfg.steering_gain
                                + 1000 * cfg.steering_bias
          /\ run'.len >= 3 =>
                /\ run'.steering = run.steering
                /\ run'.command = run.command
                /\ hist'.prob <= BlockThreshold => motor' = run.command
      ]_vars

\* three frames of one non-zero angle under a derivative gain, the last
\* one driving
C24_Witness ==
    /\ run.len = 3 /\ run.angle # 0
    /\ cfg.steering_kd > 0
    /\ hist.prob <= BlockThreshold
    /\ motor = run.command /\ motor # <<0, 0>>

\* C26: the cell that defines execute calls it once, before the camera is
\* observed: the subscription starts only after that call has finished,
\* and the first frame the camera delivers reads as previous angle the
\* angle of that first call, whose command the motors may already hold.
C26_CallBeforeObserve ==
    /\ mpc \in {"define", "calling"} =>
          (~observed /\ pc["cam"] = "idle" /\ nframes <= 1)
    /\ mpc = "observe" => (hist.done /\ nframes = 1 /\ ~observed)
    /\ (pc["cam"] = "drive" /\ nframes = 2) =>
          /\ hist.done
          /\ loc["cam"].prev = Angle(hist.x, hist.y_raw)
          /\ hist.prob > BlockThreshold => motor = <<0, 0>>

\* the first delivered frame has read a non-zero previous angle, while
\* the motors hold the command of the first call
C26_Witness ==
    /\ pc["cam"] = "drive" /\ nframes = 2
    /\ loc["cam"].prev # 0
    /\ hist.prob <= BlockThreshold
    /\ motor # <<0, 0>>

====
